---- MODULE Spec2Model ----
(***************************************************************************)
(* Model of scripts/copy_image_model.py: discovery of card assets in a     *)
(* flat source directory, filename normalization, plan building, and the   *)
(* thread-pool copy executor with its tally and exit code.                 *)
(*                                                                         *)
(* File names are sequences of one-character strings, so that stem,        *)
(* suffix, lower-casing and the rank rules are computed, not assumed.      *)
(***************************************************************************)
EXTENDS Integers, Sequences, FiniteSets, TLC

\* ------------------------------------------------------------------------
\* Bounds
\* ------------------------------------------------------------------------

\* Longest file name enumerated over NormAlphabet for the normalizer.
MaxLen == 4

\* Largest value given to -t/--threads.
MaxThreads == 2

\* ------------------------------------------------------------------------
\* Strings (str.lower, Path.stem, Path.suffix)
\* ------------------------------------------------------------------------

\* The lower-case letter of each upper-case letter.
LowerOf ==
  [A |-> "a", B |-> "b", C |-> "c", D |-> "d", E |-> "e", F |-> "f", G |-> "g",
   H |-> "h", I |-> "i", J |-> "j", K |-> "k", L |-> "l", M |-> "m", N |-> "n",
   O |-> "o", P |-> "p", Q |-> "q", R |-> "r", S |-> "s", T |-> "t", U |-> "u",
   V |-> "v", W |-> "w", X |-> "x", Y |-> "y", Z |-> "z"]

\* str.lower() on one character.
LowerChar(c) == IF c \in DOMAIN LowerOf THEN LowerOf[c] ELSE c

\* str.lower() on a string.
Lower(s) == [i \in 1..Len(s) |-> LowerChar(s[i])]

\* str.rfind("."): the last index holding a dot, 0 when there is none.
RFindDot(s) ==
  IF \E i \in 1..Len(s) : s[i] = "."
  THEN CHOOSE i \in 1..Len(s) : s[i] = "." /\ \A j \in (i+1)..Len(s) : s[j] # "."
  ELSE 0

\* Path.suffix: the last dot and what follows it, unless that dot is the
\* first or the last character of the name.
Suffix(name) ==
  LET i == RFindDot(name)
  IN IF 1 < i /\ i < Len(name) THEN SubSeq(name, i, Len(name)) ELSE <<>>

\* Path.stem: the name without its suffix.
Stem(name) ==
  LET i == RFindDot(name)
  IN IF 1 < i /\ i < Len(name) THEN SubSeq(name, 1, i - 1) ELSE name

\* ------------------------------------------------------------------------
\* normalize_basename
\* ------------------------------------------------------------------------

Suits == {"c", "d", "h", "s"}

\* A rank rule that sends "1" to "t" (and "t" on to "10").
RankOutChained(rank) ==
  IF rank = <<"1">> THEN <<"t">>
  ELSE IF rank \in {<<"t">>, <<"1","0">>} THEN <<"1","0">>
  ELSE rank

\* rank_out of normalize_basename.
RankOut(rank) ==
  IF rank = <<"1">> THEN <<"a">>
  ELSE IF rank \in {<<"t">>, <<"1","0">>} THEN <<"1","0">>
  ELSE rank

\* A normalizer that forgets to lower-case the suffix.
normalize_keep_suffix_case(src) ==
  LET name == Lower(Stem(src))
  IN IF Len(name) < 2 THEN Lower(src)
     ELSE IF name[1] \notin Suits THEN Lower(src)
     ELSE <<name[1]>> \o RankOut(SubSeq(name, 2, Len(name))) \o Suffix(src)

normalize_basename(src) ==
  LET name == Lower(Stem(src))
  IN IF Len(name) < 2 THEN Lower(src)
     ELSE LET suit == name[1]
              rank == SubSeq(name, 2, Len(name))
          IN IF suit \notin Suits THEN Lower(src)
             ELSE <<suit>> \o RankOut(rank) \o Lower(Suffix(src))

\* ------------------------------------------------------------------------
\* Configuration (IMAGE_EXTS, MODEL_EXTS) and the file system
\* ------------------------------------------------------------------------

IMAGE_EXTS ==
  { <<".","p","n","g">>, <<".","j","p","g">>,
    <<".","j","p","e","g">>, <<".","w","e","b","p">> }

MODEL_EXTS == { <<".","g","l","b">> }

\* Largest byte size of a file.
MaxSize == 2

Sizes == 1..MaxSize

\* Directories: the source directory S and two candidate destinations.
Dirs == {"S", "A", "B"}

\* What a directory path is on disk: a directory, nothing, or a regular file.
DirStates == {"dir", "absent", "file"}

\* File names found in the source directory.
NmD1png == <<"D","1",".","p","n","g">>
NmDapng == <<"d","a",".","p","n","g">>
NmDtglb == <<"d","t",".","g","l","b">>
NmNotes == <<"n",".","t","x","t">>

\* The order in which iterdir() lists the source directory.
Listing == <<NmD1png, NmDapng, NmDtglb, NmNotes>>

SrcNames == {Listing[i] : i \in 1..Len(Listing)}

\* Content of a destination file that was there before any run.
Old == <<"o","l","d">>

\* The (images root, models root) pairs of main(): distinct roots, one root
\* for both kinds, and images copied back into the source directory.
RootConfigs == { <<"A", "B">>, <<"A", "A">>, <<"S", "B">> }

VARIABLES
  dirs,          \* [Dirs -> DirStates]
  files,         \* path -> [size, data, ro], defined on the files that exist
  dryRun,        \* args.dry_run
  threads,       \* args.threads
  imagesDest,    \* images_dest
  modelsDest,    \* models_dest
  pc,            \* position of main(): "start", "collect", "crash", "exit"
  plans,         \* the list build_copy_plans returned
  status,        \* per plan: "queued", "check", "copy", or its result
  calls,         \* per plan: how many times copy_one was entered
  reported,      \* plans whose future as_completed has yielded
  copied,        \* main's counters
  skipped,
  errors,
  summary,       \* whether the Summary block was printed
  exitCode,      \* process exit status, -1 while running
  runNo,         \* 1 for the first invocation of the tool, 2 for the second
  dirsAtStart,   \* the file system when the current run started
  filesAtStart,
  firstPlans,    \* plans and exit status of the first invocation
  firstExit,
  normIn,        \* normalizer runs: the file name given,
  normOut,       \*   normalize_basename(normIn),
  normAgain,     \*   normalize_basename(normOut),
  normPc         \*   and how many of the two calls were made

fsVars == <<dirs, files>>
argVars == <<dryRun, threads, imagesDest, modelsDest>>
mainVars == <<pc, plans, status, calls, reported, copied, skipped, errors,
              summary, exitCode>>
histVars == <<runNo, dirsAtStart, filesAtStart, firstPlans, firstExit>>
normVars == <<normIn, normOut, normAgain, normPc>>
vars == <<fsVars, argVars, mainVars, histVars, normVars>>

\* Path.exists() for a file path.
Exists(fs, p) == p \in DOMAIN fs

\* is_same_file that only looks at the destination's existence.
is_same_file_exists_only(fs, src, dest) == Exists(fs, dest)

\* is_same_file: stat() of a missing source raises OSError, which gives False.
is_same_file(fs, src, dest) ==
  IF Exists(fs, dest) /\ ~Exists(fs, src) THEN FALSE
  ELSE Exists(fs, dest) /\ fs[src].size = fs[dest].size

\* discover_files: the regular files of src_dir, by lower-cased extension.
IsImage(n) == Lower(Suffix(n)) \in IMAGE_EXTS
IsModel(n) == Lower(Suffix(n)) \in MODEL_EXTS

discover_images(fs) ==
  SelectSeq(Listing, LAMBDA n : Exists(fs, <<"S", n>>) /\ IsImage(n))

discover_models(fs) ==
  SelectSeq(Listing, LAMBDA n : Exists(fs, <<"S", n>>) /\ ~IsImage(n) /\ IsModel(n))

\* A plan builder that sends every plan to the images root.
build_copy_plans_one_root(images, models, images_dest, models_dest) ==
  [i \in 1..Len(images) |->
     [src |-> <<"S", images[i]>>,
      dest |-> <<images_dest, normalize_basename(images[i])>>,
      kind |-> "image"]]
  \o
  [i \in 1..Len(models) |->
     [src |-> <<"S", models[i]>>,
      dest |-> <<images_dest, normalize_basename(models[i])>>,
      kind |-> "model"]]

build_copy_plans(images, models, images_dest, models_dest) ==
  [i \in 1..Len(images) |->
     [src |-> <<"S", images[i]>>,
      dest |-> <<images_dest, normalize_basename(images[i])>>,
      kind |-> "image"]]
  \o
  [i \in 1..Len(models) |->
     [src |-> <<"S", models[i]>>,
      dest |-> <<models_dest, normalize_basename(models[i])>>,
      kind |-> "model"]]

\* ------------------------------------------------------------------------
\* Initial states: the arguments and the file system the tool is started on
\* ------------------------------------------------------------------------

\* Marks a path that holds no file while the initial file system is built.
Absent == [size |-> 0, data |-> <<>>, ro |-> FALSE]

\* A source file: readable, writable, its content named after the file.
SrcOptions(n) == {Absent} \cup {[size |-> z, data |-> n, ro |-> FALSE] : z \in Sizes}

\* A file already at a destination: any size, possibly read-only.
DestOptions == {Absent} \cup {[size |-> z, data |-> Old, ro |-> r] : z \in Sizes, r \in BOOLEAN}

\* The function g restricted to the paths that hold a file.
Present(g) == [p \in {q \in DOMAIN g : g[q] # Absent} |-> g[p]]

NmDapngOut == normalize_basename(NmD1png)
NmD10glbOut == normalize_basename(NmDtglb)

InitFs ==
  /\ dirs \in [Dirs -> DirStates]
  /\ \A d \in Dirs \ {"S", imagesDest, modelsDest} : dirs[d] = "absent"
  /\ \E s1 \in SrcOptions(NmD1png), s2 \in SrcOptions(NmDapng),
        s3 \in SrcOptions(NmDtglb), d1 \in DestOptions, d2 \in DestOptions :
       /\ dirs["S"] # "dir" => s1 = Absent /\ s2 = Absent /\ s3 = Absent
       /\ (dirs[imagesDest] # "dir" \/ imagesDest = "S") => d1 = Absent
       /\ dirs[modelsDest] # "dir" => d2 = Absent
       /\ files = Present(
            (IF dirs["S"] = "dir"
             THEN (<<"S", NmNotes>> :> [size |-> 1, data |-> NmNotes, ro |-> FALSE])
             ELSE <<>>)
            @@ (<<"S", NmD1png>> :> s1) @@ (<<"S", NmDapng>> :> s2)
            @@ (<<"S", NmDtglb>> :> s3)
            @@ (<<imagesDest, NmDapngOut>> :> d1)
            @@ (<<modelsDest, NmD10glbOut>> :> d2))

InitMain ==
  /\ pc = "start"
  /\ plans = <<>>
  /\ status = <<>>
  /\ calls = <<>>
  /\ reported = {}
  /\ copied = 0
  /\ skipped = 0
  /\ errors = 0
  /\ summary = FALSE
  /\ exitCode = -1

NormIdle ==
  /\ normIn = <<>>
  /\ normOut = <<>>
  /\ normAgain = <<>>
  /\ normPc = 0

Init ==
  /\ dryRun \in BOOLEAN
  /\ threads \in {0, MaxThreads}
  /\ \E rc \in RootConfigs : imagesDest = rc[1] /\ modelsDest = rc[2]
  /\ InitFs
  /\ InitMain
  /\ runNo = 1
  /\ dirsAtStart = dirs
  /\ filesAtStart = files
  /\ firstPlans = <<>>
  /\ firstExit = -1
  /\ NormIdle

\* ------------------------------------------------------------------------
\* main(): validation, discovery, planning, submission
\* ------------------------------------------------------------------------

N == Len(plans)

Results == {"copied", "skip", "dry-run", "error", "raised"}

Finished(i) == status[i] \in Results

\* max_workers of the ThreadPoolExecutor.
PoolSize == IF threads < 1 THEN 1 ELSE threads

\* Plans a worker thread is executing copy_one for.
Running == {i \in 1..N : status[i] \in {"check", "copy"}}

\* "if not src_dir.exists() or not src_dir.is_dir(): return 2"
MainInvalidSrc ==
  /\ pc = "start"
  /\ dirs["S"] # "dir"
  /\ pc' = "exit"
  /\ exitCode' = 2
  /\ UNCHANGED <<fsVars, argVars, histVars, normVars, plans, status, calls,
                 reported, copied, skipped, errors, summary>>

\* "if not plans: print('Nothing to do.'); return 0"
MainNothingToDo ==
  /\ pc = "start"
  /\ dirs["S"] = "dir"
  /\ build_copy_plans(discover_images(files), discover_models(files),
                      imagesDest, modelsDest) = <<>>
  /\ pc' = "exit"
  /\ exitCode' = 0
  /\ UNCHANGED <<fsVars, argVars, histVars, normVars, plans, status, calls,
                 reported, copied, skipped, errors, summary>>

\* Discovery, build_copy_plans, "copied = skipped = errors = 0" and the
\* submission of every plan to the executor.
MainSubmit ==
  /\ pc = "start"
  /\ dirs["S"] = "dir"
  /\ LET ps == build_copy_plans(discover_images(files), discover_models(files),
                                imagesDest, modelsDest)
     IN /\ ps # <<>>
        /\ plans' = ps
        /\ status' = [i \in 1..Len(ps) |-> "queued"]
        /\ calls' = [i \in 1..Len(ps) |-> 0]
  /\ reported' = {}
  /\ copied' = 0
  /\ skipped' = 0
  /\ errors' = 0
  /\ pc' = "collect"
  /\ UNCHANGED <<fsVars, argVars, histVars, normVars, summary, exitCode>>

\* ------------------------------------------------------------------------
\* copy_one, run by the pool's workers
\* ------------------------------------------------------------------------

\* A queue that hands out a plan until it has finished, not until taken.
NextUnfinished(i) == status[i] \in {"queued", "check", "copy"}

\* The work queue is FIFO: a free worker takes the oldest queued plan.
NextQueued(i) ==
  /\ status[i] = "queued"
  /\ \A j \in 1..(i - 1) : status[j] # "queued"

\* ensure_dir: mkdir(parents=True, exist_ok=True) on a path that is a
\* directory or does not exist.
ensure_dir(ds, d) == [ds EXCEPT ![d] = "dir"]

\* A worker takes plan i and runs copy_one up to ensure_dir. mkdir raises
\* FileExistsError when the path is a regular file; nothing in copy_one
\* catches it, so the future holds the exception.
CopyOneEnsureDir(i) ==
  /\ pc \in {"collect", "crash"}
  /\ i \in 1..N
  /\ NextQueued(i)
  /\ Cardinality(Running) < PoolSize
  /\ calls' = [calls EXCEPT ![i] = @ + 1]
  /\ LET d == plans[i].dest[1]
     IN IF dirs[d] = "file"
        THEN /\ status' = [status EXCEPT ![i] = "raised"]
             /\ dirs' = dirs
        ELSE /\ status' = [status EXCEPT ![i] = "check"]
             /\ dirs' = ensure_dir(dirs, d)
  /\ UNCHANGED <<files, argVars, histVars, normVars, pc, plans, reported,
                 copied, skipped, errors, summary, exitCode>>

\* "if is_same_file(...): return skip" and "if dry_run: return dry-run".
CopyOneCheck(i) ==
  /\ i \in 1..N
  /\ status[i] = "check"
  /\ status' = [status EXCEPT ![i] =
                  IF is_same_file(files, plans[i].src, plans[i].dest) THEN "skip"
                  ELSE IF dryRun THEN "dry-run"
                  ELSE "copy"]
  /\ UNCHANGED <<fsVars, argVars, histVars, normVars, pc, plans, calls,
                 reported, copied, skipped, errors, summary, exitCode>>

\* Whether shutil.copy2(src, dest) raises: the source is gone, source and
\* destination are the same file, or the destination cannot be opened for
\* writing.
Copy2Fails(fs, src, dest) ==
  \/ ~Exists(fs, src)
  \/ src = dest
  \/ Exists(fs, dest) /\ fs[dest].ro

\* A copy that creates the destination and stops before writing its bytes.
Copy2Truncated(fs, src, dest) ==
  [p \in DOMAIN fs \cup {dest} |->
     IF p = dest THEN [fs[src] EXCEPT !.size = 0] ELSE fs[p]]

\* The file system after a successful shutil.copy2(src, dest): content and
\* metadata (mode included) of the source are at the destination.
Copy2(fs, src, dest) ==
  [p \in DOMAIN fs \cup {dest} |-> IF p = dest THEN fs[src] ELSE fs[p]]

\* "try: shutil.copy2(...); return copied / except Exception: return ERROR"
CopyOneCopy(i) ==
  /\ i \in 1..N
  /\ status[i] = "copy"
  /\ IF Copy2Fails(files, plans[i].src, plans[i].dest)
     THEN /\ status' = [status EXCEPT ![i] = "error"]
          /\ files' = files
     ELSE /\ status' = [status EXCEPT ![i] = "copied"]
          /\ files' = Copy2(files, plans[i].src, plans[i].dest)
  /\ UNCHANGED <<dirs, argVars, histVars, normVars, pc, plans, calls,
                 reported, copied, skipped, errors, summary, exitCode>>

\* ------------------------------------------------------------------------
\* main(): the as_completed loop, the summary and the exit status
\* ------------------------------------------------------------------------

\* The conditional expression with its two results exchanged.
ReturnCodeInverted == IF errors > 0 THEN 0 ELSE 1

\* "return 1 if errors else 0"
ReturnCode == IF errors > 0 THEN 1 ELSE 0

\* The chain written with "if" for "elif" after the first branch: a copied
\* plan falls through to the final else and is counted as an error too.
TallyNoElif(st) ==
  /\ copied' = IF st = "copied" THEN copied + 1 ELSE copied
  /\ skipped' = IF st = "skip" THEN skipped + 1 ELSE skipped
  /\ errors' = IF st \notin {"skip", "dry-run"} THEN errors + 1 ELSE errors

\* The if/elif chain on status.startswith(...).
Tally(st) ==
  /\ copied' = IF st = "copied" THEN copied + 1 ELSE copied
  /\ skipped' = IF st = "skip" THEN skipped + 1 ELSE skipped
  /\ errors' = IF st \notin {"copied", "skip", "dry-run"} THEN errors + 1 ELSE errors

\* as_completed yields the finished future of plan i; fut.result() returns
\* its (plan, status) and the status is printed and counted.
MainCollect(i) ==
  /\ pc = "collect"
  /\ i \in 1..N
  /\ i \notin reported
  /\ Finished(i)
  /\ status[i] # "raised"
  /\ reported' = reported \cup {i}
  /\ Tally(status[i])
  /\ UNCHANGED <<fsVars, argVars, histVars, normVars, pc, plans, status,
                 calls, summary, exitCode>>

\* as_completed yields a future that holds an exception: fut.result()
\* re-raises it in main, which leaves the loop without counting the plan.
MainCollectRaises(i) ==
  /\ pc = "collect"
  /\ i \in 1..N
  /\ i \notin reported
  /\ status[i] = "raised"
  /\ pc' = "crash"
  /\ UNCHANGED <<fsVars, argVars, histVars, normVars, plans, status, calls,
                 reported, copied, skipped, errors, summary, exitCode>>

\* Every future was yielded: the with-block ends, the summary is printed
\* and main returns.
MainSummary ==
  /\ pc = "collect"
  /\ reported = 1..N
  /\ summary' = TRUE
  /\ exitCode' = ReturnCode
  /\ pc' = "exit"
  /\ UNCHANGED <<fsVars, argVars, histVars, normVars, plans, status, calls,
                 reported, copied, skipped, errors>>

\* The exception leaves the with-block, whose exit waits for the workers to
\* drain the queue (shutdown(wait=True)); then it leaves main() and the
\* interpreter ends with a traceback and status 1.
MainUncaught ==
  /\ pc = "crash"
  /\ \A i \in 1..N : Finished(i)
  /\ exitCode' = 1
  /\ pc' = "exit"
  /\ UNCHANGED <<fsVars, argVars, histVars, normVars, plans, status, calls,
                 reported, copied, skipped, errors, summary>>

\* The tool is started a second time with the same arguments, on the file
\* system the first invocation left.
Rerun ==
  /\ pc = "exit"
  /\ runNo = 1
  /\ runNo' = 2
  /\ firstPlans' = plans
  /\ firstExit' = exitCode
  /\ dirsAtStart' = dirs
  /\ filesAtStart' = files
  /\ pc' = "start"
  /\ plans' = <<>>
  /\ status' = <<>>
  /\ calls' = <<>>
  /\ reported' = {}
  /\ copied' = 0
  /\ skipped' = 0
  /\ errors' = 0
  /\ summary' = FALSE
  /\ exitCode' = -1
  /\ UNCHANGED <<fsVars, argVars, normVars>>

Next ==
  \/ MainInvalidSrc
  \/ MainNothingToDo
  \/ MainSubmit
  \/ \E i \in 1..N : CopyOneEnsureDir(i)
  \/ \E i \in 1..N : CopyOneCheck(i)
  \/ \E i \in 1..N : CopyOneCopy(i)
  \/ \E i \in 1..N : MainCollect(i)
  \/ \E i \in 1..N : MainCollectRaises(i)
  \/ MainSummary
  \/ MainUncaught
  \/ Rerun

Spec == Init /\ [][Next]_vars

\* ------------------------------------------------------------------------
\* The normalizer on its own: every short name over NormAlphabet, and the
\* names the documentation gives as examples
\* ------------------------------------------------------------------------

NormAlphabet == {"d", "D", "1", "t", "T", "0", "a", "."}

ExD1png == <<"d","1",".","p","n","g">>
ExDtpng == <<"d","t",".","p","n","g">>
ExD10png == <<"d","1","0",".","p","n","g">>
ExS10jpg == <<"s","1","0",".","j","p","g">>
ExH5webp == <<"h","5",".","w","e","b","p">>
ExZzpng == <<"z","z",".","p","n","g">>
ExHtjpg == <<"h","t",".","j","p","g">>
ExH10jpg == <<"h","1","0",".","j","p","g">>
ExXqpng == <<"x","q",".","p","n","g">>
ExC1JPEG == <<"C","1",".","J","P","E","G">>
ExCajpeg == <<"c","a",".","j","p","e","g">>

ExampleNames ==
  {ExD1png, ExDtpng, ExS10jpg, ExH5webp, ExZzpng, ExHtjpg, ExXqpng, ExC1JPEG,
   NmD1png, NmDapng, NmDtglb, NmNotes}

\* Names a directory listing can hold: not empty, not "." and not "..".
NormInputs ==
  ({s \in UNION {[1..n -> NormAlphabet] : n \in 1..MaxLen} :
      s \notin {<<".">>, <<".", ".">>}})
  \cup ExampleNames

InitNorm ==
  /\ normIn \in NormInputs
  /\ normOut = <<>>
  /\ normAgain = <<>>
  /\ normPc = 0
  /\ dryRun = FALSE
  /\ threads = 1
  /\ imagesDest = "A"
  /\ modelsDest = "B"
  /\ dirs = [d \in Dirs |-> "absent"]
  /\ files = <<>>
  /\ InitMain
  /\ runNo = 1
  /\ dirsAtStart = dirs
  /\ filesAtStart = files
  /\ firstPlans = <<>>
  /\ firstExit = -1

\* dest_name = normalize_basename(p)
NormalizeOnce ==
  /\ normPc = 0
  /\ normOut' = normalize_basename(normIn)
  /\ normPc' = 1
  /\ UNCHANGED <<fsVars, argVars, mainVars, histVars, normIn, normAgain>>

\* The normalizer applied to a name it produced.
NormalizeAgain ==
  /\ normPc = 1
  /\ normAgain' = normalize_basename(normOut)
  /\ normPc' = 2
  /\ UNCHANGED <<fsVars, argVars, mainVars, histVars, normIn, normOut>>

NextNorm == NormalizeOnce \/ NormalizeAgain

SpecNorm == InitNorm /\ [][NextNorm]_vars

\* ------------------------------------------------------------------------
\* Properties of the normalizer (checked under SpecNorm)
\* ------------------------------------------------------------------------

\* The documented rule, written from its wording: rank "1" is the ace,
\* "t" and "10" are the ten, anything else passes through.
RuleRank(rank) ==
  CASE rank = <<"1">> -> <<"a">>
    [] rank = <<"t">> -> <<"1","0">>
    [] rank = <<"1","0">> -> <<"1","0">>
    [] OTHER -> rank

RuleNormalize(x) ==
  LET stem == Lower(Stem(x))
  IN IF Len(stem) < 2 \/ stem[1] \notin {"c", "d", "h", "s"}
     THEN Lower(x)
     ELSE <<stem[1]>> \o RuleRank(Tail(stem)) \o Lower(Suffix(x))

\* C7: normalization is idempotent: normalizing the name normalize_basename
\* returned gives that same name, for matching names and fallback names.
C7_NormalizeIdempotent == normPc = 2 => normAgain = normOut

\* C7's case: a name the normalizer rewrote (D1.png -> da.png), normalized
\* a second time.
C7_Witness == normPc = 2 /\ normIn = NmD1png /\ normOut = NmDapng /\ normOut # normIn

Failed == {i \in 1..N : status[i] \in {"error", "raised"}}

DistinctDests(ps) ==
  \A i, j \in 1..Len(ps) : i # j => ps[i].dest # ps[j].dest

\* Source and destination both exist and have the same byte size.
SameSize(fs, src, dest) ==
  /\ src \in DOMAIN fs
  /\ dest \in DOMAIN fs
  /\ fs[src].size = fs[dest].size

\* C1: an I/O failure in one plan never aborts the run: when the process
\* has ended after submitting plans, every plan was reported, the summary
\* was printed and every failed plan is in the error tally.
C1_FailureNeverAbortsRun ==
  (pc = "exit" /\ N > 0) =>
    /\ summary
    /\ reported = 1..N
    /\ errors = Cardinality(Failed)

\* C2: a dry run writes nothing: files and directories stay as they were
\* when the run started.
C2_DryRunWritesNothing ==
  dryRun => (files = filesAtStart /\ dirs = dirsAtStart)

C4_ExitCode ==
  /\ exitCode \in {-1, 0, 1, 2}
  /\ (pc = "exit") = (exitCode # -1)
  /\ exitCode = 2 =>
       /\ dirs["S"] # "dir"
       /\ plans = <<>> /\ calls = <<>>
       /\ files = filesAtStart /\ dirs = dirsAtStart
  /\ (pc = "exit" /\ dirs["S"] # "dir") => exitCode = 2
  /\ (pc = "exit" /\ dirs["S"] = "dir") =>
       exitCode = (IF Failed # {} THEN 1 ELSE 0)

\* C4's case: a run that copied one file and failed on another has ended
\* with its summary and status 1.
C4_Witness ==
  /\ pc = "exit" /\ exitCode = 1 /\ summary
  /\ \E i, j \in 1..N : status[i] = "error" /\ status[j] = "copied"

\* C5: for every pool size (below 1 counts as 1) copy_one is entered at
\* most once per plan, the pool never runs more plans than its size, at
\* the end every plan was processed once, and the summary is printed only
\* when all plans have finished, with copied + skipped + errors +
\* would-copy equal to the number of plans.
C5_EachPlanOnce ==
  /\ PoolSize >= 1
  /\ Cardinality(Running) <= PoolSize
  /\ \A i \in 1..N : calls[i] <= 1
  /\ pc = "exit" => \A i \in 1..N : calls[i] = 1 /\ Finished(i)
  /\ summary =>
       /\ \A i \in 1..N : Finished(i)
       /\ copied + skipped + errors
            + Cardinality({i \in reported : status[i] = "dry-run"}) = N

\* C5's case: three plans went through a pool of size 1 given as
\* --threads 0, and the summary counted a copy, a skip and an error.
C5_Witness ==
  /\ summary /\ threads = 0 /\ N = 3
  /\ copied = 1 /\ skipped = 1 /\ errors = 1

\* C6: the skip rule. When copy_one compares the sizes for a plan, the plan
\* ends as skip exactly when its destination exists with the source's byte
\* size at that moment, with or without --dry-run; and the step that ends
\* a plan as skip writes nothing: every file, the destination and its
\* content included, and every directory stay as they were.
C6_SkipRule ==
  [][\A i \in 1..N :
       (status[i] = "check" /\ status'[i] # "check") =>
         /\ SameSize(files, plans[i].src, plans[i].dest) <=> (status'[i] = "skip")
         /\ status'[i] = "skip" => (files' = files /\ dirs' = dirs)]_vars

\* C6's case: under --dry-run a plan ended as skip while its destination
\* holds other content of the same size as its source.
C6_Witness ==
  /\ dryRun
  /\ \E i \in 1..N :
       /\ status[i] = "skip"
       /\ plans[i].dest # plans[i].src
       /\ files[plans[i].dest].size = files[plans[i].src].size
       /\ files[plans[i].dest].data # files[plans[i].src].data
       /\ files[plans[i].dest] = filesAtStart[plans[i].dest]

\* The asset files the source directory held when the run started.
DiscoveredAtStart ==
  {n \in SrcNames : <<"S", n>> \in DOMAIN filesAtStart /\ (IsImage(n) \/ IsModel(n))}

\* The root a plan's kind selects, and the other one.
RootOf(kind) == IF kind = "image" THEN imagesDest ELSE modelsDest
OtherRoot(kind) == IF kind = "image" THEN modelsDest ELSE imagesDest

\* One plan per discovered source file, none for anything else.
OnePlanPerSource ==
  /\ N = Cardinality(DiscoveredAtStart)
  /\ \A n \in DiscoveredAtStart : \E i \in 1..N : plans[i].src = <<"S", n>>
  /\ \A i \in 1..N : plans[i].src[1] = "S" /\ plans[i].src[2] \in DiscoveredAtStart

\* build_copy_plans has returned and its plans were submitted; no worker
\* has taken one yet. The plans are frozen values and the list is not
\* changed afterwards.
PlansBuilt == pc = "collect" /\ \A i \in 1..N : status[i] = "queued"

\* C9 as stated: the plan builder returns one plan per discovered file, and
\* every plan's destination lies directly under the root of its kind and
\* not under the other root, whatever the two roots are.
C9_UnderExactlyOneRoot ==
  PlansBuilt =>
    /\ OnePlanPerSource
    /\ \A i \in 1..N :
         /\ plans[i].dest[1] = RootOf(plans[i].kind)
         /\ plans[i].dest[1] # OtherRoot(plans[i].kind)

\* C9 amended: the plan builder returns one plan per discovered file; every
\* plan's kind is the one its extension gives, and its destination is the
\* root of that kind joined with the normalized name; it lies under that
\* root only whenever the two roots are different directories.
C9_UnderRootOfKind ==
  PlansBuilt =>
    /\ OnePlanPerSource
    /\ \A i \in 1..N :
         /\ plans[i].kind = (IF IsImage(plans[i].src[2]) THEN "image" ELSE "model")
         /\ plans[i].dest = <<RootOf(plans[i].kind), normalize_basename(plans[i].src[2])>>
         /\ imagesDest # modelsDest => plans[i].dest[1] # OtherRoot(plans[i].kind)

\* C9's case: plans were built for an image and a model with two different
\* roots.
C9_Witness ==
  /\ PlansBuilt /\ imagesDest # modelsDest
  /\ \E i, j \in 1..N : plans[i].kind = "image" /\ plans[j].kind = "model"

\* What a run without failures gives when its plans are executed one after
\* the other on the file system the run started on.
ExpectedStatus ==
  [i \in 1..N |->
     IF SameSize(filesAtStart, plans[i].src, plans[i].dest) THEN "skip"
     ELSE IF dryRun THEN "dry-run" ELSE "copied"]

ExpectedFiles ==
  LET written == {i \in 1..N : ExpectedStatus[i] = "copied"}
  IN [p \in DOMAIN filesAtStart \cup {plans[i].dest : i \in written} |->
        IF \E i \in written : plans[i].dest = p
        THEN filesAtStart[plans[CHOOSE i \in written : plans[i].dest = p].src]
        ELSE filesAtStart[p]]

ExpectedDirs ==
  [d \in Dirs |-> IF \E i \in 1..N : plans[i].dest[1] = d THEN "dir" ELSE dirsAtStart[d]]

\* C10: a run without I/O failures whose plans have pairwise distinct
\* destinations ends, for every interleaving of the workers and every pool
\* size, with the same outcome per plan, the same files and directories and
\* the same tally: those of executing the plans one by one on the initial
\* file system.
C10_ScheduleIndependent ==
  (pc = "exit" /\ N > 0 /\ DistinctDests(plans) /\ Failed = {}) =>
    /\ status = ExpectedStatus
    /\ files = ExpectedFiles
    /\ dirs = ExpectedDirs
    /\ summary
    /\ copied = Cardinality({i \in 1..N : ExpectedStatus[i] = "copied"})
    /\ skipped = Cardinality({i \in 1..N : ExpectedStatus[i] = "skip"})
    /\ errors = 0
    /\ exitCode = 0

\* C10's case: two workers ran an image plan and a model plan with distinct
\* destinations, one was skipped and the other copied, and the run has
\* ended.
C10_Witness ==
  /\ pc = "exit" /\ PoolSize = 2 /\ N = 2 /\ DistinctDests(plans) /\ Failed = {}
  /\ copied = 1 /\ skipped = 1

====
